---- MODULE Spec2Model ----
(***************************************************************************)
(* Model of the domain events broker of ddd-ts: AggregateRoot queues       *)
(* (src/src/aggregate-root.ts), the Entity identity they inherit           *)
(* (src/src/entity.ts) and the static DomainEventsBroker                   *)
(* (src/src/domain-events-broker.ts).                                      *)
(*                                                                         *)
(* Objects are numbered in the order they are constructed; 0 stands for    *)
(* null.  A dispatch is a synchronous call chain: it is modelled as the    *)
(* call (DispatchAggregateEvents), one step per handler invocation         *)
(* (InvokeHandler) and the return (DispatchReturn); while a dispatch is on *)
(* the stack no other top-level call can start.  Handlers return normally  *)
(* and call nothing of the library.  The optional logger of AggregateRoot  *)
(* is left out: it is absent by default and touches no state of the        *)
(* library.                                                                *)
(***************************************************************************)
EXTENDS Integers, Sequences, FiniteSets, TLC

\* ---------------------------------------------------------------- bounds
\* most events queued at any one time, over all aggregates
MaxQueued == 2
\* most handler registrations held at any one time, over all event names
MaxHandlers == 2
\* most dispatchAggregateEvents calls in progress at once, one inside the other
MaxDepth == 2
\* most plain objects application code creates
MaxObjects == 2
\* most Entity objects, and most value objects of each kind, constructed
MaxInstances == 3
\* most arrays created, by application code and by CollectionValueObject
MaxArrays == 3
\* the last instant of the clock
MaxClock == 2

\* ---------------------------------------------------------------- universe
\* aggregate objects, numbered in construction order
Objs == 1..2
\* the null reference
Null == 0
\* ids a caller passes to the constructor when reconstituting
GivenIds == {<<"given", 1>>}
\* data.id of a bag that holds no id
NoId == <<"undefined", 0>>
\* the event classes of the test-suite
EventNames == {"PrimaryStubEvent", "SecondaryStubEvent"}
\* event objects: two of the first class, one of the second
Events == {[type |-> "PrimaryStubEvent", uid |-> 1],
           [type |-> "PrimaryStubEvent", uid |-> 2],
           [type |-> "SecondaryStubEvent", uid |-> 1]}
\* handler functions
Handlers == {"h1", "h2"}

\* ---------------------------------------------------------------- values
\* JavaScript values: undefined, null, strings, and references to plain objects,
\* to Entity objects, to ValueObject objects and to arrays
Undefined == <<"undefined", 0>>
NullValue == <<"null", 0>>
Str(s) == <<"str", s>>
ObjRef(addr) == <<"obj", addr>>
EntityRef(n) == <<"entity", n>>
\* the object literal {}
EmptyObject == [k \in {} |-> Undefined]
\* the attribute bags application code builds for Entity constructors
BagLiterals == {[id |-> Str("x"), tenantId |-> Str("t1")],
                [id |-> Str("x"), tenantId |-> Str("t2"), foo |-> Str("bar")],
                [id |-> NullValue, foo |-> Str("bar")]}

ValueObjectRef(n) == <<"vo", n>>
\* the data objects application code builds for value objects and collections:
\* 1 and 2 are two objects with the same content, 4 and 5 differ only in which of
\* the two they hold as a nested object
DataHeap == <<[foo |-> Str("bar")],
              [foo |-> Str("bar")],
              [foo |-> Str("baz")],
              [foo |-> Str("bar"), child |-> ObjRef(1)],
              [foo |-> Str("bar"), child |-> ObjRef(2)]>>
\* what application code passes to a ValueObject constructor
ValueObjectProps ==
  {Undefined, Str("bar"), Str("baz")} \cup {ObjRef(a) : a \in DOMAIN DataHeap}

CollectionRef(n) == <<"collection", n>>
ArrayRef(n) == <<"array", n>>
\* the arrays application code builds for collections: [], [x, y], [x', y] with x'
\* another object of x's content, and [x, y, z]
ArrayLiterals == {<<>>,
                  <<ObjRef(1), ObjRef(3)>>,
                  <<ObjRef(2), ObjRef(3)>>,
                  <<ObjRef(1), ObjRef(3), ObjRef(4)>>}

VARIABLES
  id,                   \* Entity._id of every constructed aggregate
  domainEvents,         \* AggregateRoot._domainEvents of every constructed aggregate
  aggregatesWithEvents, \* DomainEventsBroker.aggregatesWithEvents
  eventHandlers,        \* DomainEventsBroker.eventHandlers (a Map: absent keys are not in DOMAIN)
  stack,                \* the dispatches in progress, innermost last
  calls,                \* history: the handler invocations of the dispatch in progress
  prev,                 \* history: the top-level call completed last, when it was addDomainEvent, clearDomainEvents, a reset or dispatchAggregateEvents
  heap,                 \* the plain objects application code has created (attribute bags, data, items)
  arrays,               \* the arrays application code and CollectionValueObject have created
  entities,             \* the Entity objects: _id, _tenantId, _data
  valueObjects,         \* ValueObject._data of every constructed value object
  collections,          \* CollectionValueObject._collection of every constructed collection
  frozen,               \* the objects and arrays Object.freeze has been applied to
  now,                  \* the instant new Date() returns
  eventObjects,         \* the fields of every constructed domain event
  history,              \* history: the events added so far, those delivered by dispatches that have returned, and per aggregate those older than its last dispatch
  ret                   \* history: the last call of a method of the three, its operands and what it returned

brokerVars == <<id, domainEvents, aggregatesWithEvents, eventHandlers, stack, calls, prev>>
objectVars == <<heap, arrays, entities, valueObjects, collections, frozen, now, eventObjects,
                history, ret>>
vars == <<brokerVars, objectVars>>

\* ---------------------------------------------------------------- helpers
Range(s) == {s[k] : k \in 1..Len(s)}

\* Array.prototype.splice(idx, 1)
Splice1(s, idx) ==
  IF idx < 1 \/ idx > Len(s) THEN s
  ELSE [k \in 1..(Len(s) - 1) |-> IF k < idx THEN s[k] ELSE s[k + 1]]

\* number of positions of s that hold v
Occ(s, v) == Cardinality({k \in 1..Len(s) : s[k] = v})

\* uuid(): a value no other object has
Uuid(o) == <<"uuid", o>>

\* obj[key], undefined when the object has no such key
Get(obj, key) == IF key \in DOMAIN obj THEN obj[key] ELSE Undefined

\* the object after delete obj[k] for every k of keys
Without(obj, keys) == [k \in DOMAIN obj \ keys |-> obj[k]]

\* a ?? b
Coalesce(a, b) == IF a = Undefined \/ a = NullValue THEN b ELSE a

\* ---------------------------------------------------------------- Entity
\* Entity.equals, for two constructed aggregates (both are Entity instances)
Equals(this, object) ==
  IF object = Null THEN FALSE
  ELSE this = object \/ id[this] = id[object]

\* ---------------------------------------------------------------- broker, private helpers
\* reg.find((agg) => agg.id === anId), as the index of the first match from k on, 0 for none
RECURSIVE IndexOfId(_, _, _)
IndexOfId(reg, anId, k) ==
  IF k > Len(reg) THEN 0
  ELSE IF id[reg[k]] = anId THEN k
  ELSE IndexOfId(reg, anId, k + 1)

\* reg.findIndex((agg) => agg.equals(aggregate)), from k on, 0 for -1
RECURSIVE IndexOfEqual(_, _, _)
IndexOfEqual(reg, aggregate, k) ==
  IF k > Len(reg) THEN 0
  ELSE IF Equals(reg[k], aggregate) THEN k
  ELSE IndexOfEqual(reg, aggregate, k + 1)

\* a lookup whose predicate is always truthy: the first entry, whatever its id
findRegisteredAggregateById_First(reg, anId) ==
  IF reg = <<>> THEN Null ELSE reg[1]

findRegisteredAggregateById(reg, anId) ==
  LET idx == IndexOfId(reg, anId, 1)
  IN  IF idx = 0 THEN Null ELSE reg[idx]

\* an unregisterAggregate that removes nothing
unregisterAggregate_Noop(reg, aggregate) == reg

\* an unregisterAggregate that splices one position too far
unregisterAggregate_OffByOne(reg, aggregate) ==
  LET aggIdx == IndexOfEqual(reg, aggregate, 1)
  IN  IF aggIdx # 0 THEN Splice1(reg, aggIdx + 1) ELSE reg

unregisterAggregate(reg, aggregate) ==
  LET aggIdx == IndexOfEqual(reg, aggregate, 1)
  IN  IF aggIdx # 0 THEN Splice1(reg, aggIdx) ELSE reg

\* this.eventHandlers.get(eventName), undefined read as the empty list by "?."
HandlersFor(map, eventName) ==
  IF eventName \in DOMAIN map THEN map[eventName] ELSE <<>>

\* a registerAggregate that looks for the object instead of its id
registerAggregate_ByIdentity(reg, aggregate) ==
  IF \E k \in 1..Len(reg) : reg[k] = aggregate THEN reg ELSE Append(reg, aggregate)

\* registerAggregate as a function of the registry
registerAggregate(reg, aggregate) ==
  LET foundAggregate == findRegisteredAggregateById(reg, id[aggregate])
  IN  IF foundAggregate = Null THEN Append(reg, aggregate) ELSE reg

\* ---------------------------------------------------------------- dispatchEvents, as a cursor
\* The outer forEach visits the events the array held when the loop started;
\* the inner forEach visits the handler array fetched when its event is reached.
\* A cursor (i, j) names the next invocation: handler hs[j] on event evs[i].
\* a loop that ends at the first event whose type has no handler list
Seek_StopAtUnhandled(map, evs, i) ==
  IF i > Len(evs) THEN i
  ELSE IF HandlersFor(map, evs[i].type) # <<>> THEN i
  ELSE Len(evs) + 1

RECURSIVE Seek(_, _, _)
Seek(map, evs, i) ==
  IF i > Len(evs) THEN i
  ELSE IF HandlersFor(map, evs[i].type) # <<>> THEN i
  ELSE Seek(map, evs, i + 1)

CursorAt(map, evs, i0) ==
  LET i == Seek(map, evs, i0)
  IN  [i |-> i,
       hs |-> IF i > Len(evs) THEN <<>> ELSE HandlersFor(map, evs[i].type),
       j |-> 1]

FirstCursor(map, evs) == CursorAt(map, evs, 1)

\* a dispatchEvents that stops after the first handler of each event
NextCursor_FirstHandlerOnly(map, f) == CursorAt(map, f.evs, f.i + 1)

NextCursor(map, f) ==
  IF f.j < Len(f.hs) THEN [i |-> f.i, hs |-> f.hs, j |-> f.j + 1]
  ELSE CursorAt(map, f.evs, f.i + 1)

LoopDone(f) == f.i > Len(f.evs)

\* sum of the lengths of the sequences f holds
RECURSIVE TotalLen(_, _)
TotalLen(f, keys) ==
  IF keys = {} THEN 0
  ELSE LET k == CHOOSE x \in keys : TRUE
       IN  Len(f[k]) + TotalLen(f, keys \ {k})

Idle == stack = <<>>
Top == stack[Len(stack)]
\* prev, the call just completed: its name and argument; for a dispatch the entry
\* its lookup found, whether the call before it was a dispatch of the same argument
\* and what that one had found; the number of registerAggregate calls it made
NoCall == [op |-> "none", arg |-> Null, found |-> Null,
           again |-> FALSE, before |-> Null, nreg |-> 0]

Dispatched(aggregate, found) ==
  LET again == prev.op = "dispatchAggregateEvents" /\ prev.arg = aggregate
  IN  [op |-> "dispatchAggregateEvents", arg |-> aggregate, found |-> found,
       again |-> again, before |-> IF again THEN prev.found ELSE Null, nreg |-> 0]

\* history before any event has been added
NoHistory == [added |-> {}, delivered |-> {}, stale |-> {}]

\* ret when no method of Entity, ValueObject or CollectionValueObject has been called
NoRet == [op |-> "none"]

\* ---------------------------------------------------------------- initial state
Init ==
  /\ id = <<>>
  /\ domainEvents = <<>>
  /\ aggregatesWithEvents = <<>>
  /\ eventHandlers = <<>>
  /\ stack = <<>>
  /\ calls = <<>>
  /\ prev = NoCall
  /\ heap = <<>>
  /\ arrays = <<>>
  /\ entities = <<>>
  /\ valueObjects = <<>>
  /\ collections = <<>>
  /\ frozen = {}
  /\ now = 0
  /\ eventObjects = <<>>
  /\ history = NoHistory
  /\ ret = NoRet

\* ---------------------------------------------------------------- Entity / AggregateRoot
\* new SomeAggregate(data): data.id when given, else uuid(); the event queue starts empty.
Construct(givenId) ==
  /\ Idle
  /\ Len(id) < Cardinality(Objs)
  /\ LET o == Len(id) + 1
     IN  id' = Append(id, IF givenId # NoId THEN givenId ELSE Uuid(o))
  /\ domainEvents' = Append(domainEvents, <<>>)
  /\ prev' = NoCall
  /\ UNCHANGED <<aggregatesWithEvents, eventHandlers, stack, calls, objectVars>>

\* an addDomainEvent that forgets to tell the broker
AddDomainEvent_NoRegister(a, event) ==
  /\ Idle
  /\ a \in DOMAIN id
  /\ TotalLen(domainEvents, DOMAIN domainEvents) < MaxQueued
  /\ domainEvents' = [domainEvents EXCEPT ![a] = Append(@, event)]
  /\ prev' = [NoCall EXCEPT !.op = "addDomainEvent", !.arg = a]
  /\ UNCHANGED <<id, aggregatesWithEvents, eventHandlers, stack, calls, objectVars>>

\* AggregateRoot.addDomainEvent: push, then DomainEventsBroker.registerAggregate(this)
AddDomainEvent(a, event) ==
  /\ Idle
  /\ a \in DOMAIN id
  /\ TotalLen(domainEvents, DOMAIN domainEvents) < MaxQueued
  /\ domainEvents' = [domainEvents EXCEPT ![a] = Append(@, event)]
  /\ aggregatesWithEvents' = registerAggregate(aggregatesWithEvents, a)
  /\ prev' = [NoCall EXCEPT !.op = "addDomainEvent", !.arg = a, !.nreg = 1]
  /\ UNCHANGED <<id, eventHandlers, stack, calls, objectVars>>

\* prev after clearDomainEvents() on a: again tells that the call before was the same
Cleared(a) ==
  [NoCall EXCEPT !.op = "clearDomainEvents", !.arg = a,
                 !.again = (prev.op = "clearDomainEvents" /\ prev.arg = a)]

\* a clearDomainEvents that also takes the aggregate out of the pending registry
ClearDomainEvents_Unregister(a) ==
  /\ Idle
  /\ a \in DOMAIN id
  /\ domainEvents' = [domainEvents EXCEPT ![a] = <<>>]
  /\ aggregatesWithEvents' = unregisterAggregate(aggregatesWithEvents, a)
  /\ prev' = Cleared(a)
  /\ UNCHANGED <<id, eventHandlers, stack, calls, objectVars>>

\* AggregateRoot.clearDomainEvents, called by application code
ClearDomainEvents(a) ==
  /\ Idle
  /\ a \in DOMAIN id
  /\ domainEvents' = [domainEvents EXCEPT ![a] = <<>>]
  /\ prev' = Cleared(a)
  /\ UNCHANGED <<id, aggregatesWithEvents, eventHandlers, stack, calls, objectVars>>

\* ---------------------------------------------------------------- broker, public operations
\* a registerEventHandler that puts the new handler first
registerEventHandler_Prepend(map, eventName, handler) ==
  [k \in (DOMAIN map) \cup {eventName} |->
     IF k = eventName THEN <<handler>> \o HandlersFor(map, eventName) ELSE map[k]]

\* the Map after set(eventName, (get(eventName) || []).concat(handler))
registerEventHandler(map, eventName, handler) ==
  [k \in (DOMAIN map) \cup {eventName} |->
     IF k = eventName THEN Append(HandlersFor(map, eventName), handler) ELSE map[k]]

RegisterEventHandler(eventName, handler) ==
  /\ Idle
  /\ TotalLen(eventHandlers, DOMAIN eventHandlers) < MaxHandlers
  /\ eventHandlers' = registerEventHandler(eventHandlers, eventName, handler)
  /\ prev' = NoCall
  /\ UNCHANGED <<id, domainEvents, aggregatesWithEvents, stack, calls, objectVars>>

\* DomainEventsBroker.registerAggregate, called by application code
RegisterAggregate(a) ==
  /\ Idle
  /\ a \in DOMAIN id
  /\ aggregatesWithEvents' = registerAggregate(aggregatesWithEvents, a)
  /\ prev' = NoCall
  /\ UNCHANGED <<id, domainEvents, eventHandlers, stack, calls, objectVars>>

\* a clearEventHandlers that resets the pending registry as well
ClearEventHandlers_Both ==
  /\ Idle
  /\ eventHandlers' = <<>>
  /\ aggregatesWithEvents' = <<>>
  /\ prev' = [NoCall EXCEPT !.op = "clearEventHandlers"]
  /\ UNCHANGED <<id, domainEvents, stack, calls, objectVars>>

\* DomainEventsBroker.clearEventHandlers: this.eventHandlers = new Map()
ClearEventHandlers ==
  /\ Idle
  /\ eventHandlers' = <<>>
  /\ prev' = [NoCall EXCEPT !.op = "clearEventHandlers"]
  /\ UNCHANGED <<id, domainEvents, aggregatesWithEvents, stack, calls, objectVars>>

\* DomainEventsBroker.clearRegisteredAggregates: this.aggregatesWithEvents = []
ClearRegisteredAggregates ==
  /\ Idle
  /\ aggregatesWithEvents' = <<>>
  /\ prev' = [NoCall EXCEPT !.op = "clearRegisteredAggregates"]
  /\ UNCHANGED <<id, domainEvents, eventHandlers, stack, calls, objectVars>>

\* a dispatchAggregateEvents that walks the queue from its last event to its first
DispatchAggregateEvents_Reversed(aggregate) ==
  /\ Idle
  /\ aggregate \in DOMAIN id
  /\ calls' = <<>>
  /\ LET found == findRegisteredAggregateById(aggregatesWithEvents, id[aggregate])
         evs == IF found = Null THEN <<>>
                ELSE [k \in 1..Len(domainEvents[found]) |->
                        domainEvents[found][Len(domainEvents[found]) + 1 - k]]
     IN  IF found # Null
         THEN /\ stack' = Append(stack,
                     [arg |-> aggregate, found |-> found, evs |-> evs]
                       @@ FirstCursor(eventHandlers, evs))
              /\ prev' = IF prev.op = "dispatchAggregateEvents" /\ prev.arg = aggregate
                          THEN prev ELSE NoCall
         ELSE /\ stack' = stack
              /\ prev' = Dispatched(aggregate, Null)
  /\ UNCHANGED <<id, domainEvents, aggregatesWithEvents, eventHandlers, objectVars>>

\* dispatchAggregateEvents(aggregate), up to the first handler invocation:
\* the lookup, and the start of dispatchEvents(found) when it finds an entry
DispatchAggregateEvents(aggregate) ==
  /\ Idle
  /\ aggregate \in DOMAIN id
  /\ calls' = <<>>
  /\ LET found == findRegisteredAggregateById(aggregatesWithEvents, id[aggregate])
     IN  IF found # Null
         THEN /\ stack' = Append(stack,
                     [arg |-> aggregate, found |-> found, evs |-> domainEvents[found]]
                       @@ FirstCursor(eventHandlers, domainEvents[found]))
              /\ prev' = IF prev.op = "dispatchAggregateEvents" /\ prev.arg = aggregate
                          THEN prev ELSE NoCall
         ELSE /\ stack' = stack
              /\ prev' = Dispatched(aggregate, Null)
  /\ UNCHANGED <<id, domainEvents, aggregatesWithEvents, eventHandlers, objectVars>>

\* dispatchEvents: void handle(event), for a handler that returns normally
\* and calls nothing of this library
InvokeHandler ==
  /\ ~Idle
  /\ ~LoopDone(Top)
  /\ calls' = Append(calls, <<Top.hs[Top.j], Top.evs[Top.i]>>)
  /\ stack' = [stack EXCEPT ![Len(stack)] =
                 [arg |-> Top.arg, found |-> Top.found, evs |-> Top.evs]
                   @@ NextCursor(eventHandlers, Top)]
  /\ UNCHANGED <<id, domainEvents, aggregatesWithEvents, eventHandlers, prev, objectVars>>

\* a dispatchAggregateEvents that forgets found.clearDomainEvents()
DispatchReturn_NoClear ==
  /\ ~Idle
  /\ LoopDone(Top)
  /\ aggregatesWithEvents' = unregisterAggregate(aggregatesWithEvents, Top.found)
  /\ stack' = SubSeq(stack, 1, Len(stack) - 1)
  /\ calls' = <<>>
  /\ prev' = Dispatched(Top.arg, Top.found)
  /\ UNCHANGED <<id, domainEvents, eventHandlers, objectVars>>

\* dispatchAggregateEvents after dispatchEvents returned:
\* found.clearDomainEvents(); this.unregisterAggregate(found)
DispatchReturn ==
  /\ ~Idle
  /\ LoopDone(Top)
  /\ domainEvents' = [domainEvents EXCEPT ![Top.found] = <<>>]
  /\ aggregatesWithEvents' = unregisterAggregate(aggregatesWithEvents, Top.found)
  /\ stack' = SubSeq(stack, 1, Len(stack) - 1)
  /\ calls' = <<>>
  /\ prev' = Dispatched(Top.arg, Top.found)
  /\ UNCHANGED <<id, eventHandlers, objectVars>>

Next ==
  \/ \E g \in GivenIds \cup {NoId} : Construct(g)
  \/ \E a \in Objs, e \in Events : AddDomainEvent(a, e)
  \/ \E a \in Objs : ClearDomainEvents(a)
  \/ \E n \in EventNames, h \in Handlers : RegisterEventHandler(n, h)
  \/ \E a \in Objs : RegisterAggregate(a)
  \/ ClearEventHandlers
  \/ ClearRegisteredAggregates
  \/ \E a \in Objs : DispatchAggregateEvents(a)
  \/ InvokeHandler
  \/ DispatchReturn

Spec == Init /\ [][Next]_vars

\* ---------------------------------------------------------------- AbstractDomainEvent
\* In SpecEvent the events are constructed before they are queued: an element of
\* Events is then the reference to an event object, whose fields eventObjects holds.

\* time passes
Tick ==
  /\ Idle
  /\ now < MaxClock
  /\ now' = now + 1
  /\ UNCHANGED <<brokerVars, heap, arrays, entities, valueObjects, collections, frozen,
                 eventObjects, ret, history>>

\* a constructor that leaves an absent tenantId undefined
NewEvent_NoSentinel(event, ctx, data) ==
  /\ Idle
  /\ event \notin DOMAIN eventObjects
  /\ eventObjects' =
       [e \in DOMAIN eventObjects \cup {event} |->
          IF e = event
          THEN [aggregateId |-> ctx.aggregateId,
                timestamp   |-> now,
                tenantId    |-> Get(ctx, "tenantId"),
                data        |-> Coalesce(data, NullValue)]
          ELSE eventObjects[e]]
  /\ UNCHANGED <<brokerVars, heap, arrays, entities, valueObjects, collections, frozen,
                 now, ret, history>>

\* new SomeEvent(ctx, data), data being undefined when the argument is omitted:
\*   this.aggregateId = ctx.aggregateId; this.timestamp = new Date().toISOString();
\*   this.tenantId = ctx.tenantId ?? null; this.data = data ?? null
NewEvent(event, ctx, data) ==
  /\ Idle
  /\ event \notin DOMAIN eventObjects
  /\ eventObjects' =
       [e \in DOMAIN eventObjects \cup {event} |->
          IF e = event
          THEN [aggregateId |-> ctx.aggregateId,
                timestamp   |-> now,
                tenantId    |-> Coalesce(Get(ctx, "tenantId"), NullValue),
                data        |-> Coalesce(data, NullValue)]
          ELSE eventObjects[e]]
  /\ UNCHANGED <<brokerVars, heap, arrays, entities, valueObjects, collections, frozen,
                 now, ret, history>>

\* addDomainEvent with an event that has been constructed
AddConstructedEvent(a, event) ==
  /\ event \in DOMAIN eventObjects
  /\ AddDomainEvent(a, event)

\* what application code passes to event constructors: a context without tenant
\* and no payload, or a context with a tenant and a payload
EventInputs == {<<[aggregateId |-> Uuid(1)], Undefined>>,
                <<[aggregateId |-> Uuid(1), tenantId |-> Str("t1")], Str("payload")>>}
\* the events constructed in SpecEvent, one of each class
EventRefs == {e \in Events : e.uid = 1}

\* one aggregate, one handler, events constructed at different instants
NextEvent ==
  \/ Construct(NoId)
  \/ Tick
  \/ \E e \in EventRefs, inp \in EventInputs : NewEvent(e, inp[1], inp[2])
  \/ \E e \in EventRefs : AddConstructedEvent(1, e)
  \/ RegisterEventHandler("PrimaryStubEvent", "h1")
  \/ DispatchAggregateEvents(1)
  \/ InvokeHandler
  \/ DispatchReturn

SpecEvent == Init /\ [][NextEvent]_vars

\* ---------------------------------------------------------------- handlers that call the broker
\* A handler runs inside dispatchEvents, on the caller's stack: what it calls runs to
\* completion before the handler returns.  In SpecReentrant the handler that is being
\* invoked may call dispatchAggregateEvents itself.

\* the handler at the cursor calls DomainEventsBroker.dispatchAggregateEvents(aggregate)
HandlerDispatches(aggregate) ==
  /\ ~Idle
  /\ ~LoopDone(Top)
  /\ Len(stack) < MaxDepth
  /\ aggregate \in DOMAIN id
  /\ LET found == findRegisteredAggregateById(aggregatesWithEvents, id[aggregate])
     IN  stack' = IF found = Null THEN stack
                  ELSE Append(stack,
                         [arg |-> aggregate, found |-> found, evs |-> domainEvents[found]]
                           @@ FirstCursor(eventHandlers, domainEvents[found]))
  /\ UNCHANGED <<id, domainEvents, aggregatesWithEvents, eventHandlers, calls, prev, objectVars>>

\* the end of a dispatchAggregateEvents that a handler called: control goes back to
\* that handler
NestedReturn ==
  /\ Len(stack) > 1
  /\ LoopDone(Top)
  /\ domainEvents' = [domainEvents EXCEPT ![Top.found] = <<>>]
  /\ aggregatesWithEvents' = unregisterAggregate(aggregatesWithEvents, Top.found)
  /\ stack' = SubSeq(stack, 1, Len(stack) - 1)
  /\ UNCHANGED <<id, eventHandlers, calls, prev, objectVars>>

\* the end of the dispatchAggregateEvents that application code called
TopLevelReturn == Len(stack) = 1 /\ DispatchReturn

NextReentrant ==
  \/ \E g \in GivenIds \cup {NoId} : Construct(g)
  \/ \E a \in Objs, e \in Events : AddDomainEvent(a, e)
  \/ \E a \in Objs : ClearDomainEvents(a)
  \/ \E n \in EventNames, h \in Handlers : RegisterEventHandler(n, h)
  \/ \E a \in Objs : RegisterAggregate(a)
  \/ ClearEventHandlers
  \/ ClearRegisteredAggregates
  \/ \E a \in Objs : DispatchAggregateEvents(a)
  \/ \E a \in Objs : HandlerDispatches(a)
  \/ InvokeHandler
  \/ NestedReturn
  \/ TopLevelReturn

SpecReentrant == Init /\ [][NextReentrant]_vars

\* ---------------------------------------------------------------- handlers that add events
\* In SpecHandlerAdds the handler that is being invoked may call a method of an
\* aggregate that calls addDomainEvent: the push goes to the array the aggregate holds,
\* which is the array the outer forEach of dispatchEvents is walking when the
\* aggregate is the one being dispatched.  forEach fixes its range before the first
\* callback, so the cursor's evs stays as it was.
HandlerAddsEvent(a, event) ==
  /\ ~Idle
  /\ ~LoopDone(Top)
  /\ a \in DOMAIN id
  /\ TotalLen(domainEvents, DOMAIN domainEvents) < MaxQueued
  /\ domainEvents' = [domainEvents EXCEPT ![a] = Append(@, event)]
  /\ aggregatesWithEvents' = registerAggregate(aggregatesWithEvents, a)
  /\ UNCHANGED <<id, eventHandlers, stack, calls, prev, objectVars>>

NextHandlerAdds ==
  \/ \E g \in GivenIds \cup {NoId} : Construct(g)
  \/ \E a \in Objs, e \in Events : AddDomainEvent(a, e)
  \/ \E n \in EventNames, h \in Handlers : RegisterEventHandler(n, h)
  \/ \E a \in Objs : DispatchAggregateEvents(a)
  \/ \E a \in Objs, e \in Events : HandlerAddsEvent(a, e)
  \/ InvokeHandler
  \/ DispatchReturn

SpecHandlerAdds == Init /\ [][NextHandlerAdds]_vars

\* ---------------------------------------------------------------- deliveries across dispatches
\* In SpecDelivery every addDomainEvent is given an event object that has not been
\* added before, and history keeps what the dispatches that have returned delivered.
\* The broker's part of the three actions is that of AddDomainEvent,
\* DispatchAggregateEvents and DispatchReturn.

\* addDomainEvent(event) with a new event object
AddFreshEvent(a, event) ==
  /\ Idle
  /\ a \in DOMAIN id
  /\ event \notin history.added
  /\ TotalLen(domainEvents, DOMAIN domainEvents) < MaxQueued
  /\ domainEvents' = [domainEvents EXCEPT ![a] = Append(@, event)]
  /\ aggregatesWithEvents' = registerAggregate(aggregatesWithEvents, a)
  /\ prev' = [NoCall EXCEPT !.op = "addDomainEvent", !.arg = a, !.nreg = 1]
  /\ history' = [history EXCEPT !.added = @ \cup {event}]
  /\ UNCHANGED <<id, eventHandlers, stack, calls, heap, arrays, entities, valueObjects,
                 collections, frozen, now, eventObjects, ret>>

\* dispatchAggregateEvents(aggregate) up to the first handler invocation; a call whose
\* lookup finds nothing has returned
DispatchRecorded(aggregate) ==
  /\ Idle
  /\ aggregate \in DOMAIN id
  /\ calls' = <<>>
  /\ LET found == findRegisteredAggregateById(aggregatesWithEvents, id[aggregate])
     IN  IF found # Null
         THEN /\ stack' = Append(stack,
                     [arg |-> aggregate, found |-> found, evs |-> domainEvents[found]]
                       @@ FirstCursor(eventHandlers, domainEvents[found]))
              /\ prev' = IF prev.op = "dispatchAggregateEvents" /\ prev.arg = aggregate
                          THEN prev ELSE NoCall
              /\ history' = history
         ELSE /\ stack' = stack
              /\ prev' = Dispatched(aggregate, Null)
              /\ history' = [history EXCEPT
                               !.stale = @ \cup ({aggregate} \X history.added)]
  /\ UNCHANGED <<id, domainEvents, aggregatesWithEvents, eventHandlers, heap, arrays, entities,
                 valueObjects, collections, frozen, now, eventObjects, ret>>

\* the return of dispatchAggregateEvents: found.clearDomainEvents();
\* this.unregisterAggregate(found)
ReturnRecorded ==
  /\ ~Idle
  /\ LoopDone(Top)
  /\ domainEvents' = [domainEvents EXCEPT ![Top.found] = <<>>]
  /\ aggregatesWithEvents' = unregisterAggregate(aggregatesWithEvents, Top.found)
  /\ stack' = SubSeq(stack, 1, Len(stack) - 1)
  /\ calls' = <<>>
  /\ prev' = Dispatched(Top.arg, Top.found)
  /\ history' = [history EXCEPT
                   !.delivered = @ \cup {calls[k][2] : k \in 1..Len(calls)},
                   !.stale = @ \cup ({Top.arg} \X history.added)]
  /\ UNCHANGED <<id, eventHandlers, heap, arrays, entities, valueObjects, collections, frozen,
                 now, eventObjects, ret>>

NextDelivery ==
  \/ \E g \in GivenIds \cup {NoId} : Construct(g)
  \/ \E a \in Objs, e \in Events : AddFreshEvent(a, e)
  \/ \E n \in EventNames, h \in Handlers : RegisterEventHandler(n, h)
  \/ \E a \in Objs : DispatchRecorded(a)
  \/ InvokeHandler
  \/ ReturnRecorded

SpecDelivery == Init /\ [][NextDelivery]_vars

\* ---------------------------------------------------------------- handlers that throw
\* In SpecThrows the handler that is being invoked may throw.  Nothing between the
\* handler and the caller of dispatchAggregateEvents catches: the exception leaves
\* both forEach loops, dispatchEvents and dispatchAggregateEvents, so that
\* found.clearDomainEvents() and unregisterAggregate(found) are not reached.

\* a dispatchAggregateEvents with a finally block around dispatchEvents
HandlerThrows_Finally ==
  /\ ~Idle
  /\ ~LoopDone(Top)
  /\ calls' = Append(calls, <<Top.hs[Top.j], Top.evs[Top.i]>>)
  /\ domainEvents' = [domainEvents EXCEPT ![Top.found] = <<>>]
  /\ aggregatesWithEvents' = unregisterAggregate(aggregatesWithEvents, Top.found)
  /\ stack' = <<>>
  /\ prev' = [NoCall EXCEPT !.op = "dispatchAggregateEvents threw",
                            !.arg = Top.arg, !.found = Top.found]
  /\ UNCHANGED <<id, eventHandlers, objectVars>>

\* void handle(event), for a handler that throws
HandlerThrows ==
  /\ ~Idle
  /\ ~LoopDone(Top)
  /\ calls' = Append(calls, <<Top.hs[Top.j], Top.evs[Top.i]>>)
  /\ stack' = <<>>
  /\ prev' = [NoCall EXCEPT !.op = "dispatchAggregateEvents threw",
                            !.arg = Top.arg, !.found = Top.found]
  /\ UNCHANGED <<id, domainEvents, aggregatesWithEvents, eventHandlers, objectVars>>

NextThrows ==
  \/ \E g \in GivenIds \cup {NoId} : Construct(g)
  \/ \E a \in Objs, e \in Events : AddDomainEvent(a, e)
  \/ \E n \in EventNames, h \in Handlers : RegisterEventHandler(n, h)
  \/ \E a \in Objs : DispatchAggregateEvents(a)
  \/ InvokeHandler
  \/ HandlerThrows
  \/ DispatchReturn

SpecThrows == Init /\ [][NextThrows]_vars

\* ---------------------------------------------------------------- handlers that register handlers
\* In SpecHandlerRegisters the handler that is being invoked may call
\* registerEventHandler.  The Map entry is replaced by a new array (concat), so the
\* array the inner forEach is walking, hs in the cursor, is not the one that grows;
\* the list of an event is fetched from the Map when the outer loop reaches it.

\* a registerEventHandler that pushes onto the array the inner loop is walking, the
\* loop reading the length as it goes
HandlerRegisters_Live(eventName, handler) ==
  /\ ~Idle
  /\ ~LoopDone(Top)
  /\ TotalLen(eventHandlers, DOMAIN eventHandlers) < MaxHandlers
  /\ eventHandlers' = registerEventHandler(eventHandlers, eventName, handler)
  /\ stack' = [stack EXCEPT ![Len(stack)].hs =
                 IF Top.evs[Top.i].type = eventName THEN Append(@, handler) ELSE @]
  /\ UNCHANGED <<id, domainEvents, aggregatesWithEvents, calls, prev, objectVars>>

\* the handler at the cursor calls DomainEventsBroker.registerEventHandler(eventName, handler)
HandlerRegisters(eventName, handler) ==
  /\ ~Idle
  /\ ~LoopDone(Top)
  /\ TotalLen(eventHandlers, DOMAIN eventHandlers) < MaxHandlers
  /\ eventHandlers' = registerEventHandler(eventHandlers, eventName, handler)
  /\ UNCHANGED <<id, domainEvents, aggregatesWithEvents, stack, calls, prev, objectVars>>

NextHandlerRegisters ==
  \/ \E g \in GivenIds \cup {NoId} : Construct(g)
  \/ \E a \in Objs, e \in Events : AddDomainEvent(a, e)
  \/ \E n \in EventNames, h \in Handlers : RegisterEventHandler(n, h)
  \/ \E a \in Objs : DispatchAggregateEvents(a)
  \/ \E n \in EventNames, h \in Handlers : HandlerRegisters(n, h)
  \/ InvokeHandler
  \/ DispatchReturn

SpecHandlerRegisters == Init /\ [][NextHandlerRegisters]_vars

\* ---------------------------------------------------------------- plain objects
\* typeof v === 'object' && v !== null
IsObject(v) == v[1] \in {"obj", "array"}

\* the values Object.keys(v) leads to
Children(v) ==
  IF v[1] = "array" THEN Range(arrays[v[2]])
  ELSE IF v[1] = "obj" THEN {heap[v[2]][k] : k \in DOMAIN heap[v[2]]}
  ELSE {}

\* Object.freeze(v) given the frozen set fz: a primitive is returned as it is
Freeze(v, fz) == IF IsObject(v) THEN fz \cup {v} ELSE fz

\* deepFreeze(v) of utils.ts given the frozen set fz: the children that are objects
\* and not yet frozen are deep-frozen, then v itself is frozen
RECURSIVE deepFreeze(_, _)
deepFreeze(v, fz) ==
  IF ~IsObject(v) THEN fz
  ELSE Freeze(v, fz) \cup
         UNION {deepFreeze(child, fz) : child \in {c \in Children(v) : IsObject(c) /\ c \notin fz}}

\* deepFreeze of an array that is being created with these items as number n
deepFreezeNew(items, n, fz) ==
  {ArrayRef(n)} \cup fz \cup
    UNION {deepFreeze(child, fz) : child \in {c \in Range(items) : IsObject(c) /\ c \notin fz}}

\* application code evaluates an object literal
NewObject(literal) ==
  /\ Len(heap) < MaxObjects
  /\ heap' = Append(heap, literal)
  /\ ret' = NoRet
  /\ UNCHANGED <<brokerVars, arrays, entities, valueObjects, collections, frozen, now,
                 eventObjects, history>>

\* ---------------------------------------------------------------- Entity (whole class)
\* v instanceof Entity
isEntity(v) == v[1] = "entity"

\* an equals that also wants the tenants to agree
Entity_equals_SameTenant(this, object) ==
  IF object = NullValue \/ object = Undefined \/ ~isEntity(object) THEN FALSE
  ELSE \/ this = object[2]
       \/ /\ entities[this].id = entities[object[2]].id
          /\ entities[this].tenantId = entities[object[2]].tenantId

\* Entity.equals(object), this being the number of an Entity object
Entity_equals(this, object) ==
  IF object = NullValue \/ object = Undefined \/ ~isEntity(object) THEN FALSE
  ELSE this = object[2] \/ entities[this].id = entities[object[2]].id

\* a constructor that never reads data.id
NewEntity_AlwaysGenerates(data) ==
  /\ Len(entities) < MaxInstances
  /\ data = Undefined \/ (data[1] = "obj" /\ data[2] \in DOMAIN heap)
  /\ data = Undefined => Len(heap) < MaxObjects
  /\ LET n    == Len(entities) + 1
         bag  == IF data = Undefined THEN EmptyObject ELSE heap[data[2]]
     IN  /\ entities' = Append(entities,
                [id       |-> Uuid(n),
                 tenantId |-> Coalesce(Get(bag, "tenantId"), NullValue),
                 data     |-> IF data = Undefined THEN ObjRef(Len(heap) + 1) ELSE data,
                 given    |-> Get(bag, "id")])
         /\ heap' = IF data = Undefined THEN Append(heap, EmptyObject)
                    ELSE [heap EXCEPT ![data[2]] = Without(bag, {"id", "tenantId"})]
         /\ ret' = [op |-> "new Entity", this |-> n, arg |-> data, value |-> Uuid(n)]
  /\ UNCHANGED <<brokerVars, arrays, valueObjects, collections, frozen, now, eventObjects,
                 history>>

\* a constructor that leaves id and tenantId in the attribute bag
NewEntity_KeepsKeys(data) ==
  /\ Len(entities) < MaxInstances
  /\ data = Undefined \/ (data[1] = "obj" /\ data[2] \in DOMAIN heap)
  /\ data = Undefined => Len(heap) < MaxObjects
  /\ LET n    == Len(entities) + 1
         bag  == IF data = Undefined THEN EmptyObject ELSE heap[data[2]]
         anId == Coalesce(Get(bag, "id"), Uuid(n))
     IN  /\ entities' = Append(entities,
                [id       |-> anId,
                 tenantId |-> Coalesce(Get(bag, "tenantId"), NullValue),
                 data     |-> IF data = Undefined THEN ObjRef(Len(heap) + 1) ELSE data,
                 given    |-> Get(bag, "id")])
         /\ heap' = IF data = Undefined THEN Append(heap, EmptyObject) ELSE heap
         /\ ret' = [op |-> "new Entity", this |-> n, arg |-> data, value |-> anId]
  /\ UNCHANGED <<brokerVars, arrays, valueObjects, collections, frozen, now, eventObjects,
                 history>>

\* new SomeEntity(data), data being undefined or a reference to an attribute bag:
\*   this._id = data?.id ?? uuid(); this._tenantId = data?.tenantId ?? null;
\*   delete data?.id; delete data?.tenantId; this._data = data ?? {}
\* The field "given" is history: what data.id held when the constructor was called.
NewEntity(data) ==
  /\ Len(entities) < MaxInstances
  /\ data = Undefined \/ (data[1] = "obj" /\ data[2] \in DOMAIN heap)
  /\ data = Undefined => Len(heap) < MaxObjects
  /\ LET n    == Len(entities) + 1
         bag  == IF data = Undefined THEN EmptyObject ELSE heap[data[2]]
         anId == Coalesce(Get(bag, "id"), Uuid(n))
     IN  /\ entities' = Append(entities,
                [id       |-> anId,
                 tenantId |-> Coalesce(Get(bag, "tenantId"), NullValue),
                 data     |-> IF data = Undefined THEN ObjRef(Len(heap) + 1) ELSE data,
                 given    |-> Get(bag, "id")])
         /\ heap' = IF data = Undefined THEN Append(heap, EmptyObject)
                    ELSE [heap EXCEPT ![data[2]] = Without(bag, {"id", "tenantId"})]
         /\ ret' = [op |-> "new Entity", this |-> n, arg |-> data, value |-> anId]
  /\ UNCHANGED <<brokerVars, arrays, valueObjects, collections, frozen, now, eventObjects,
                 history>>

\* the values application code can hand to a method of an entity
EntityOperands ==
  {Undefined, NullValue}
    \cup {ObjRef(a) : a \in DOMAIN heap}
    \cup {EntityRef(n) : n \in DOMAIN entities}

\* this.equals(object), called by application code
CallEntityEquals(this, object) ==
  /\ this \in DOMAIN entities
  /\ object \in EntityOperands
  /\ ret' = [op |-> "Entity.equals", this |-> this, arg |-> object,
                value |-> Entity_equals(this, object)]
  /\ UNCHANGED <<brokerVars, heap, arrays, entities, valueObjects, collections, frozen,
                 now, eventObjects, history>>

NextEntity ==
  \/ \E literal \in BagLiterals : NewObject(literal)
  \/ \E data \in {Undefined} \cup {ObjRef(a) : a \in 1..MaxObjects} : NewEntity(data)
  \/ \E this \in 1..MaxInstances,
        object \in {Undefined, NullValue} \cup {ObjRef(a) : a \in 1..MaxObjects}
                    \cup {EntityRef(n) : n \in 1..MaxInstances} :
       CallEntityEquals(this, object)

SpecEntity == Init /\ [][NextEntity]_vars

\* ---------------------------------------------------------------- ValueObject
\* a comparison by identity alone
shallowEqual_Identity(a, b) == a = b

\* a comparison that descends into nested objects
RECURSIVE shallowEqual_Deep(_, _)
shallowEqual_Deep(a, b) ==
  IF a = b THEN TRUE
  ELSE IF a[1] = "obj" /\ b[1] = "obj"
       THEN LET oa == heap[a[2]]
                ob == heap[b[2]]
            IN  /\ Cardinality(DOMAIN oa) = Cardinality(DOMAIN ob)
                /\ \A k \in DOMAIN oa : k \in DOMAIN ob /\ shallowEqual_Deep(oa[k], ob[k])
       ELSE FALSE

\* shallowEqual of fast-equals, on strings, undefined, null and plain objects:
\* a === b, or two objects with as many keys, every key of a being a key of b that
\* holds the same value (===: the same primitive or the same reference)
shallowEqual(a, b) ==
  IF a = b THEN TRUE
  ELSE IF a[1] = "obj" /\ b[1] = "obj"
       THEN LET oa == heap[a[2]]
                ob == heap[b[2]]
            IN  /\ Cardinality(DOMAIN oa) = Cardinality(DOMAIN ob)
                /\ \A k \in DOMAIN oa : k \in DOMAIN ob /\ oa[k] = ob[k]
       ELSE FALSE

\* the state before any value object is constructed: the data objects exist
InitValue ==
  /\ id = <<>>
  /\ domainEvents = <<>>
  /\ aggregatesWithEvents = <<>>
  /\ eventHandlers = <<>>
  /\ stack = <<>>
  /\ calls = <<>>
  /\ prev = NoCall
  /\ heap = DataHeap
  /\ arrays = <<>>
  /\ entities = <<>>
  /\ valueObjects = <<>>
  /\ collections = <<>>
  /\ frozen = {}
  /\ now = 0
  /\ eventObjects = <<>>
  /\ history = NoHistory
  /\ ret = NoRet

\* new SomeValueObject(props): this._data = Object.freeze(props), the same reference
NewValueObject(props) ==
  /\ Len(valueObjects) < MaxInstances
  /\ valueObjects' = Append(valueObjects, props)
  /\ frozen' = Freeze(props, frozen)
  /\ ret' = NoRet
  /\ UNCHANGED <<brokerVars, heap, arrays, entities, collections, now, eventObjects, history>>

\* ValueObject.equals(vo), this being the number of a value object
ValueObject_equals(this, vo) ==
  IF vo = Undefined \/ vo = NullValue THEN FALSE
  ELSE IF valueObjects[vo[2]] = Undefined THEN FALSE
  ELSE shallowEqual(valueObjects[this], valueObjects[vo[2]])

\* this.equals(vo), called by application code
CallValueObjectEquals(this, vo) ==
  /\ this \in DOMAIN valueObjects
  /\ vo \in {Undefined, NullValue} \cup {ValueObjectRef(n) : n \in DOMAIN valueObjects}
  /\ ret' = [op |-> "ValueObject.equals", this |-> this, arg |-> vo,
                value |-> ValueObject_equals(this, vo)]
  /\ UNCHANGED <<brokerVars, heap, arrays, entities, valueObjects, collections, frozen,
                 now, eventObjects, history>>

NextValue ==
  \/ \E props \in ValueObjectProps : NewValueObject(props)
  \/ \E this \in 1..MaxInstances,
        vo \in {Undefined, NullValue} \cup {ValueObjectRef(n) : n \in 1..MaxInstances} :
       CallValueObjectEquals(this, vo)

SpecValue == InitValue /\ [][NextValue]_vars

\* application code assigns o[key] = value to a data object it holds a reference to
\* (the props it passed, vo.value, or a nested object of either): the assignment
\* takes effect unless Object.freeze was applied to that very object
AssignField(addr, key, value) ==
  /\ addr \in DOMAIN heap
  /\ heap' = IF ObjRef(addr) \in frozen THEN heap
             ELSE [heap EXCEPT ![addr] =
                     [k \in DOMAIN heap[addr] \cup {key} |->
                        IF k = key THEN value ELSE heap[addr][k]]]
  /\ ret' = NoRet
  /\ UNCHANGED <<brokerVars, arrays, entities, valueObjects, collections, frozen, now,
                 eventObjects, history>>

\* value objects whose data application code goes on writing to
NextValueWrites ==
  \/ \E props \in ValueObjectProps : NewValueObject(props)
  \/ \E addr \in DOMAIN DataHeap : AssignField(addr, "foo", Str("changed"))

SpecValueWrites == InitValue /\ [][NextValueWrites]_vars

\* ---------------------------------------------------------------- CollectionValueObject
\* application code evaluates an array literal
NewArray(items) ==
  /\ Len(arrays) < MaxArrays
  /\ arrays' = Append(arrays, items)
  /\ ret' = NoRet
  /\ UNCHANGED <<brokerVars, heap, entities, valueObjects, collections, frozen, now, eventObjects,
                 history>>

\* new SomeCollection(props): this._collection = deepFreeze(props), the same array
NewCollection(props) ==
  /\ Len(collections) < MaxInstances
  /\ props \in DOMAIN arrays
  /\ collections' = Append(collections, props)
  /\ frozen' = deepFreeze(ArrayRef(props), frozen)
  /\ ret' = NoRet
  /\ UNCHANGED <<brokerVars, heap, arrays, entities, valueObjects, now, eventObjects, history>>

\* vo.value[index], undefined past the end of the array
At(items, index) == IF index \in DOMAIN items THEN items[index] ELSE Undefined

\* CollectionValueObject.equals(vo), this being the number of a collection
Collection_equals(this, vo) ==
  IF vo = Undefined \/ vo = NullValue THEN FALSE
  ELSE LET mine   == arrays[collections[this]]
           theirs == arrays[collections[vo[2]]]
       IN  IF Len(theirs) = Len(mine) THEN FALSE
           ELSE \A index \in 1..Len(mine) : shallowEqual(mine[index], At(theirs, index))

\* this.equals(vo), called by application code
CallCollectionEquals(this, vo) ==
  /\ this \in DOMAIN collections
  /\ vo \in {Undefined, NullValue} \cup {CollectionRef(n) : n \in DOMAIN collections}
  /\ ret' = [op |-> "CollectionValueObject.equals", this |-> this, arg |-> vo,
                value |-> Collection_equals(this, vo)]
  /\ UNCHANGED <<brokerVars, heap, arrays, entities, valueObjects, collections, frozen,
                 now, eventObjects, history>>

\* this.value.filter((item) => key in item && item[key] === value), items being objects
removeBy(items, key, value) ==
  SelectSeq(items, LAMBDA item : key \in DOMAIN heap[item[2]] /\ heap[item[2]][key] = value)

\* this.removeBy(key, value), called by application code: the filtered array is a new
\* array, which the setter of value deep-freezes and makes the collection.  The field "before" of ret is the content
\* the collection had when the call was made.
RemoveBy(this, key, value) ==
  /\ this \in DOMAIN collections
  /\ Len(arrays) < MaxArrays
  /\ arrays' = Append(arrays, removeBy(arrays[collections[this]], key, value))
  /\ collections' = [collections EXCEPT ![this] = Len(arrays) + 1]
  /\ ret' = [op |-> "CollectionValueObject.removeBy", this |-> this,
                arg |-> <<key, value>>, before |-> arrays[collections[this]],
                was |-> collections[this]]
  /\ frozen' = deepFreezeNew(removeBy(arrays[collections[this]], key, value),
                             Len(arrays) + 1, frozen)
  /\ UNCHANGED <<brokerVars, heap, entities, valueObjects, now, eventObjects, history>>

NextCollection ==
  \/ \E items \in ArrayLiterals : NewArray(items)
  \/ \E props \in 1..MaxArrays : NewCollection(props)
  \/ \E this \in 1..MaxInstances,
        vo \in {Undefined, NullValue} \cup {CollectionRef(n) : n \in 1..MaxInstances} :
       CallCollectionEquals(this, vo)
  \/ \E this \in 1..MaxInstances, key \in {"foo", "child"},
        value \in {Str("bar"), Str("baz"), ObjRef(1)} :
       RemoveBy(this, key, value)

\* value objects and collections start from the same data objects
SpecCollection == InitValue /\ [][NextCollection]_vars

\* an add that pushes onto the array the collection holds
Add_InPlace(this, newItem) ==
  /\ this \in DOMAIN collections
  /\ Len(arrays) < MaxArrays
  /\ arrays' = [arrays EXCEPT ![collections[this]] = Append(@, newItem)]
  /\ frozen' = deepFreeze(newItem, frozen)
  /\ ret' = [op |-> "CollectionValueObject.add", this |-> this, arg |-> newItem,
                before |-> arrays[collections[this]], was |-> collections[this]]
  /\ UNCHANGED <<brokerVars, heap, entities, valueObjects, collections, now, eventObjects,
                 history>>

\* this.add(newItem): a clone of the array with newItem pushed onto it goes through
\* the setter of value.  The fields "before" and "was" of ret are the content and
\* the array the collection had when the call was made.
Add(this, newItem) ==
  /\ this \in DOMAIN collections
  /\ Len(arrays) < MaxArrays
  /\ arrays' = Append(arrays, Append(arrays[collections[this]], newItem))
  /\ collections' = [collections EXCEPT ![this] = Len(arrays) + 1]
  /\ frozen' = deepFreezeNew(Append(arrays[collections[this]], newItem),
                             Len(arrays) + 1, frozen)
  /\ ret' = [op |-> "CollectionValueObject.add", this |-> this, arg |-> newItem,
                before |-> arrays[collections[this]], was |-> collections[this]]
  /\ UNCHANGED <<brokerVars, heap, entities, valueObjects, now, eventObjects, history>>

\* this.addBulk(newItems), newItems being an array of the caller:
\* this.value.concat(newItems) goes through the setter of value
AddBulk(this, newItems) ==
  /\ this \in DOMAIN collections
  /\ newItems \in DOMAIN arrays
  /\ Len(arrays) < MaxArrays
  /\ arrays' = Append(arrays, arrays[collections[this]] \o arrays[newItems])
  /\ collections' = [collections EXCEPT ![this] = Len(arrays) + 1]
  /\ frozen' = deepFreezeNew(arrays[collections[this]] \o arrays[newItems],
                             Len(arrays) + 1, frozen)
  /\ ret' = [op |-> "CollectionValueObject.addBulk", this |-> this, arg |-> newItems,
                before |-> arrays[collections[this]], was |-> collections[this]]
  /\ UNCHANGED <<brokerVars, heap, entities, valueObjects, now, eventObjects, history>>

\* the operations that give a collection a new array
NextCopyOnWrite ==
  \/ \E items \in {<<ObjRef(1), ObjRef(3)>>, <<ObjRef(3), ObjRef(4)>>} : NewArray(items)
  \/ \E props \in 1..MaxArrays : NewCollection(props)
  \/ \E this \in 1..MaxInstances : Add(this, ObjRef(5))
  \/ \E this \in 1..MaxInstances, newItems \in 1..MaxArrays : AddBulk(this, newItems)
  \/ \E this \in 1..MaxInstances, value \in {Str("bar"), Str("baz")} :
       RemoveBy(this, "foo", value)

SpecCopyOnWrite == InitValue /\ [][NextCopyOnWrite]_vars

\* ================================================================ claims
\* the object a is an entry of the pending registry
Registered(a) == a \in Range(aggregatesWithEvents)
\* the handler list held under an event name, empty when the name is no key
ListedUnder(n) == IF n \in DOMAIN eventHandlers THEN eventHandlers[n] ELSE <<>>

\* C1: when dispatchAggregateEvents(a) is called for an aggregate a that is in the
\* pending registry, then once the loop of dispatchEvents is over each handler has been
\* invoked, with each queued event of a type it is registered under, exactly once per
\* registration and per position of that event in a's queue, and never otherwise.
C1_InvokedExactlyOnce ==
  (~Idle /\ LoopDone(Top) /\ Registered(Top.arg)) =>
    \A h \in Handlers, e \in Events :
      Occ(calls, <<h, e>>) =
        Occ(domainEvents[Top.arg], e) * Occ(ListedUnder(e.type), h)

\* C1 witness: a registered aggregate with two different events of one type, two
\* different handlers registered for that type, and the loop over
C1_Witness ==
  /\ ~Idle /\ LoopDone(Top) /\ Registered(Top.arg)
  /\ Len(domainEvents[Top.arg]) = 2
  /\ domainEvents[Top.arg][1] # domainEvents[Top.arg][2]
  /\ domainEvents[Top.arg][1].type = domainEvents[Top.arg][2].type
  /\ Cardinality(Range(ListedUnder(domainEvents[Top.arg][1].type))) = 2
  /\ Len(calls) = 4

\* an entry with the id of a is in the pending registry
RegisteredById(reg, a) == \E k \in 1..Len(reg) : id[reg[k]] = id[a]

\* C2 as stated: after dispatchAggregateEvents(a) has returned, a's queue is empty and
\* a is not in the pending registry (every event of the model is queued through
\* addDomainEvent).
C2_Original ==
  prev.op = "dispatchAggregateEvents" =>
    domainEvents[prev.arg] = <<>> /\ ~Registered(prev.arg)

\* C2 amended: when dispatchAggregateEvents(a) returns for an aggregate a that was itself
\* in the pending registry when the call was made (the lookup found a), a's queue is
\* empty and no entry with a's id is left in the pending registry.
C2_Amended ==
  [][(DispatchReturn /\ Top.found = Top.arg) =>
       /\ domainEvents'[Top.arg] = <<>>
       /\ Top.arg \notin Range(aggregatesWithEvents')
       /\ ~RegisteredById(aggregatesWithEvents', Top.arg)]_vars

\* C2 witness: a dispatch has returned that had found its own argument in the registry
C2_Witness ==
  /\ prev.op = "dispatchAggregateEvents"
  /\ prev.found = prev.arg
  /\ prev.arg # Null

\* C3: a dispatchAggregateEvents(a) that directly follows a dispatchAggregateEvents(a)
\* invokes no handler and leaves the queues, the pending registry and the handler map
\* as they are.
C3_SecondDispatchNoOp ==
  [][\A x \in Objs :
       (prev.op = "dispatchAggregateEvents" /\ prev.arg = x /\ DispatchAggregateEvents(x)) =>
         /\ Idle'
         /\ calls' = <<>>
         /\ UNCHANGED <<domainEvents, aggregatesWithEvents, eventHandlers>>]_vars

\* C3 witness: the second of two consecutive dispatches of one aggregate has returned;
\* the first had found the aggregate itself, the second found nothing
C3_Witness ==
  /\ prev.op = "dispatchAggregateEvents"
  /\ prev.again
  /\ prev.before = prev.arg
  /\ prev.found = Null

\* C4 as stated: addDomainEvent(e) on a appends e to a's queue, calls
\* registerAggregate once, and afterwards the pending registry contains a.
C4_Original ==
  [][\A a \in Objs, e \in Events :
       AddDomainEvent(a, e) =>
         /\ domainEvents'[a] = Append(domainEvents[a], e)
         /\ prev'.nreg = 1
         /\ a \in Range(aggregatesWithEvents')]_vars

\* C4 amended: addDomainEvent(e) on a appends e to a's queue, calls registerAggregate
\* once, and afterwards the pending registry holds an entry with a's id: a itself,
\* appended last, when no entry with that id was there, and otherwise the entry that
\* was there, the registry being left as it was.
C4_Amended ==
  [][\A a \in Objs, e \in Events :
       AddDomainEvent(a, e) =>
         /\ domainEvents'[a] = Append(domainEvents[a], e)
         /\ \A o \in DOMAIN id \ {a} : domainEvents'[o] = domainEvents[o]
         /\ prev'.nreg = 1
         /\ RegisteredById(aggregatesWithEvents', a)
         /\ aggregatesWithEvents' =
              IF RegisteredById(aggregatesWithEvents, a)
              THEN aggregatesWithEvents
              ELSE Append(aggregatesWithEvents, a)]_vars

\* C4 witness: addDomainEvent has just run on an aggregate whose id was already
\* registered by another object, so that the aggregate itself is not in the registry
C4_Witness ==
  /\ prev.op = "addDomainEvent"
  /\ ~Registered(prev.arg)
  /\ RegisteredById(aggregatesWithEvents, prev.arg)
  /\ Len(domainEvents[prev.arg]) = 2

\* the type names of the events queued by an aggregate
Types(a) == {domainEvents[a][k].type : k \in 1..Len(domainEvents[a])}
\* h is registered, and only under names of T
OnlyFor(h, T) ==
  /\ \E n \in DOMAIN eventHandlers : h \in Range(eventHandlers[n])
  /\ \A n \in DOMAIN eventHandlers : h \in Range(eventHandlers[n]) => n \in T

\* C5: a handler is invoked only with events of a type name it is registered under, and
\* while an aggregate a is dispatched that shares no event type with an aggregate b, no
\* handler registered only for b's event types is invoked.
C5_NoLeakAcrossTypes ==
  ~Idle =>
    \A k \in 1..Len(calls) :
      /\ calls[k][1] \in Range(ListedUnder(calls[k][2].type))
      /\ \A b \in DOMAIN id \ {Top.arg} :
           (Types(b) # {} /\ Types(Top.arg) # {} /\ Types(Top.arg) \cap Types(b) = {})
             => ~OnlyFor(calls[k][1], Types(b))

\* C6: dispatchAggregateEvents(x) hands to handlers only events of x's own queue, and
\* clears the queue and removes the registration of no aggregate object other than x.
C6_OnlyTheTargetedAggregate ==
  [][/\ InvokeHandler => Top.evs[Top.i] \in Range(domainEvents[Top.arg])
     /\ DispatchReturn =>
          \A o \in DOMAIN id \ {Top.arg} :
            /\ domainEvents'[o] = domainEvents[o]
            /\ Registered(o) => o \in Range(aggregatesWithEvents')]_vars

\* the handlers invoked with event e, in the order of their invocation
RECURSIVE CallsFor(_, _)
CallsFor(log, e) ==
  IF log = <<>> THEN <<>>
  ELSE (IF Head(log)[2] = e THEN <<Head(log)[1]>> ELSE <<>>) \o CallsFor(Tail(log), e)

\* s, n times over
RECURSIVE Repeat(_, _)
Repeat(s, n) == IF n = 0 THEN <<>> ELSE s \o Repeat(s, n - 1)

\* C7: registerEventHandler puts the handler at the end of the list of its event name
\* and leaves the other lists alone, and a dispatch invokes, for each queued event, all
\* the handlers listed under its type name in the order of that list, that is, in the
\* order in which registerEventHandler was called.
C7_InRegistrationOrder ==
  /\ []((~Idle /\ LoopDone(Top)) =>
          \A e \in Range(Top.evs) :
            CallsFor(calls, e) = Repeat(ListedUnder(e.type), Occ(Top.evs, e)))
  /\ [][\A n \in EventNames, h \in Handlers :
          RegisterEventHandler(n, h) =>
            /\ eventHandlers'[n] = Append(ListedUnder(n), h)
            /\ \A m \in DOMAIN eventHandlers \ {n} : eventHandlers'[m] = eventHandlers[m]]_vars

\* C7 witness: h2 was registered before h1 for the type of a queued event, and the
\* dispatch has invoked h2 and then h1 with it
C7_Witness ==
  /\ ~Idle /\ LoopDone(Top)
  /\ \E e \in Range(Top.evs) :
       /\ ListedUnder(e.type) = <<"h2", "h1">>
       /\ calls = <<<<"h2", e>>, <<"h1", e>>>>

\* C8: the pending registry never holds two entries with the same id, and
\* registerAggregate appends the aggregate when no entry has its id and changes
\* nothing otherwise.
C8_UniqueById ==
  /\ [](\A p, q \in 1..Len(aggregatesWithEvents) :
          p # q => id[aggregatesWithEvents[p]] # id[aggregatesWithEvents[q]])
  /\ [][\A a \in Objs :
          RegisterAggregate(a) =>
            aggregatesWithEvents' =
              IF RegisteredById(aggregatesWithEvents, a)
              THEN aggregatesWithEvents
              ELSE Append(aggregatesWithEvents, a)]_vars

\* C8 witness: two objects with one id hold events, and only the first is registered
C8_Witness ==
  \E a, b \in DOMAIN id :
    /\ a # b /\ id[a] = id[b]
    /\ Registered(a) /\ ~Registered(b)
    /\ domainEvents[a] # <<>> /\ domainEvents[b] # <<>>

\* C9: dispatchAggregateEvents(x), when no entry of the pending registry has x's id,
\* invokes no handler and changes neither a queue nor the registry nor the handler map.
C9_UnregisteredNoOp ==
  [][\A x \in Objs :
       (DispatchAggregateEvents(x) /\ ~RegisteredById(aggregatesWithEvents, x)) =>
         /\ Idle'
         /\ calls' = <<>>
         /\ UNCHANGED <<id, domainEvents, aggregatesWithEvents, eventHandlers>>]_vars

\* C9 witness: a dispatch found no entry for an aggregate that holds an event with a
\* registered handler, while another aggregate is registered
C9_Witness ==
  /\ prev.op = "dispatchAggregateEvents"
  /\ prev.found = Null
  /\ ~prev.again
  /\ domainEvents[prev.arg] # <<>>
  /\ ListedUnder(domainEvents[prev.arg][1].type) # <<>>
  /\ aggregatesWithEvents # <<>>

\* a registered aggregate holds events
PendingOk(a) == Registered(a) => domainEvents[a] # <<>>

\* C10 as stated: every aggregate in the pending registry has a non-empty queue.
C10_Original == \A a \in DOMAIN id : PendingOk(a)

\* C10 amended: the only operations after which a registered aggregate has an empty
\* queue, when this was not so before, are a clearDomainEvents() or a
\* registerAggregate() called on it by application code; every other operation keeps
\* each registered aggregate's queue non-empty.
C10_Amended ==
  [][\A a \in DOMAIN id :
       (PendingOk(a) /\ a \in Range(aggregatesWithEvents') /\ domainEvents'[a] = <<>>) =>
         (ClearDomainEvents(a) \/ RegisterAggregate(a))]_vars

\* C10 witness: a dispatch that found an entry has returned, and an aggregate it did
\* not dispatch is still registered with its events
C10_Witness ==
  /\ prev.op = "dispatchAggregateEvents"
  /\ prev.found # Null
  /\ aggregatesWithEvents # <<>>
  /\ \A a \in DOMAIN id : PendingOk(a)

\* a's queue holds events only if an entry with a's id is in the pending registry
DirtyOk(a) == domainEvents[a] # <<>> => RegisteredById(aggregatesWithEvents, a)

\* C11 as stated: every aggregate whose queue is non-empty is in the pending registry.
C11_Original == \A a \in DOMAIN id : domainEvents[a] # <<>> => Registered(a)

\* C11 amended: an aggregate with a non-empty queue has an entry with its id in the
\* pending registry (itself, or an object constructed with the same id) after every
\* operation but two: clearRegisteredAggregates(), and the return of a dispatch that
\* found another object with the same id.
C11_Amended ==
  [][\A a \in DOMAIN id :
       (/\ DirtyOk(a)
        /\ domainEvents'[a] # <<>>
        /\ ~RegisteredById(aggregatesWithEvents', a)) =>
         \/ ClearRegisteredAggregates
         \/ DispatchReturn /\ Top.found # a /\ id[Top.found] = id[a]]_vars

\* C11 witness: two aggregates with different ids hold events and both are registered
C11_Witness ==
  \E a, b \in DOMAIN id :
    /\ id[a] # id[b]
    /\ domainEvents[a] # <<>> /\ domainEvents[b] # <<>>
    /\ Registered(a) /\ Registered(b)

\* C12: clearDomainEvents() on a leaves a's queue empty, also when it was empty
\* already (a second call in a row changes nothing), and changes no other queue,
\* neither the pending registry nor the handler map: a registered aggregate stays
\* registered.
C12_ClearOnlyEmptiesTheQueue ==
  [][\A a \in Objs :
       ClearDomainEvents(a) =>
         /\ domainEvents'[a] = <<>>
         /\ \A o \in DOMAIN id \ {a} : domainEvents'[o] = domainEvents[o]
         /\ domainEvents[a] = <<>> => domainEvents' = domainEvents
         /\ aggregatesWithEvents' = aggregatesWithEvents
         /\ eventHandlers' = eventHandlers]_vars

\* C12 witness: clearDomainEvents() has been called twice in a row on an aggregate
\* that is registered, while a handler is registered and another aggregate holds events
C12_Witness ==
  /\ prev.op = "clearDomainEvents"
  /\ prev.again
  /\ Registered(prev.arg)
  /\ domainEvents[prev.arg] = <<>>
  /\ eventHandlers # <<>>
  /\ \E o \in DOMAIN id : domainEvents[o] # <<>>

\* C13: no two dispatches in progress at once deliver the events of the same
\* aggregate, handlers that call the broker included.
C13_AtMostOneInFlight ==
  \A p, q \in 1..Len(stack) : p # q => stack[p].found # stack[q].found

\* some event queued by a has a type with no registered handler
HasUnhandled(a) == \E e \in Range(domainEvents[a]) : ListedUnder(e.type) = <<>>

\* C14: when a registered aggregate is dispatched whose queue holds an event of a type
\* with no registered handler, the loop runs to its end, nothing is invoked with that
\* event, every handler listed for the type of another queued event is invoked with
\* it, and when the call returns the queue is empty and the aggregate is out of the
\* pending registry.
C14_NoHandlerIsSilent ==
  /\ []((~Idle /\ LoopDone(Top) /\ Registered(Top.arg) /\ HasUnhandled(Top.arg)) =>
          \A e \in Range(domainEvents[Top.arg]) :
            IF ListedUnder(e.type) = <<>>
            THEN \A k \in 1..Len(calls) : calls[k][2] # e
            ELSE \A h \in Range(ListedUnder(e.type)) :
                   \E k \in 1..Len(calls) : calls[k] = <<h, e>>)
  /\ [][(DispatchReturn /\ Registered(Top.arg) /\ HasUnhandled(Top.arg)) =>
          /\ domainEvents'[Top.arg] = <<>>
          /\ Top.arg \notin Range(aggregatesWithEvents')]_vars

\* C14 witness: the loop is over for a registered aggregate whose first event has no
\* handler and whose second event has one, which has been invoked
C14_Witness ==
  /\ ~Idle /\ LoopDone(Top) /\ Registered(Top.arg)
  /\ Len(domainEvents[Top.arg]) = 2
  /\ ListedUnder(domainEvents[Top.arg][1].type) = <<>>
  /\ ListedUnder(domainEvents[Top.arg][2].type) # <<>>
  /\ \E h \in Handlers : calls = <<<<h, domainEvents[Top.arg][2]>>>>

\* C15: a.equals(b) is true exactly when b is an Entity and is a itself or has a's
\* id; it is false for null, for undefined and for an object that is no Entity;
\* tenantId and attribute data play no part.
C15_EqualsByIdOnly ==
  ret.op = "Entity.equals" =>
    /\ ret.arg \in {Undefined, NullValue} => ret.value = FALSE
    /\ ret.arg[1] = "obj" => ret.value = FALSE
    /\ ret.arg[1] = "entity" =>
         ret.value = (\/ ret.arg[2] = ret.this
                      \/ entities[ret.arg[2]].id = entities[ret.this].id)

\* C15 witness: equals has returned true for two different Entity objects that have
\* the same id, different tenants and different data
C15_Witness ==
  /\ ret.op = "Entity.equals"
  /\ ret.value = TRUE
  /\ ret.arg[1] = "entity"
  /\ ret.arg[2] # ret.this
  /\ entities[ret.arg[2]].tenantId # entities[ret.this].tenantId
  /\ DOMAIN heap[entities[ret.arg[2]].data[2]] # DOMAIN heap[entities[ret.this].data[2]]

\* the entity was constructed with an id
Reconstituted(e) == entities[e].given \notin {Undefined, NullValue}

\* C16: an entity's id never changes after construction; it is the id of the
\* attribute bag when the bag held one, and otherwise a generated, non-empty id that
\* no other entity constructed without an id has.
C16_IdFixedAtConstruction ==
  /\ [][\A e \in DOMAIN entities : entities'[e].id = entities[e].id]_vars
  /\ [](\A e \in DOMAIN entities :
          IF Reconstituted(e) THEN entities[e].id = entities[e].given
          ELSE /\ entities[e].id \notin {Undefined, NullValue, Str("")}
               /\ \A f \in DOMAIN entities \ {e} :
                    ~Reconstituted(f) => entities[f].id # entities[e].id)

\* C16 witness: one entity reconstituted with the id "x", and two constructed
\* without an id (one from no data at all, one from a bag whose id is null); the
\* bag of the first has lost its id key
C16_Witness ==
  \E e, f, g \in DOMAIN entities :
    /\ entities[e].given = Str("x") /\ entities[e].id = Str("x")
    /\ "id" \notin DOMAIN heap[entities[e].data[2]]
    /\ entities[f].given = Undefined
    /\ entities[g].given = NullValue

\* two values have the same content: the same primitive, or objects with the same
\* keys whose fields have the same content
RECURSIVE SameContent(_, _)
SameContent(a, b) ==
  IF a[1] = "obj" /\ b[1] = "obj"
  THEN /\ DOMAIN heap[a[2]] = DOMAIN heap[b[2]]
       /\ \A k \in DOMAIN heap[a[2]] : SameContent(heap[a[2]][k], heap[b[2]][k])
  ELSE a = b

\* a value that is defined and holds no nested object
Flat(v) ==
  /\ v # Undefined
  /\ v[1] = "obj" => \A k \in DOMAIN heap[v[2]] : heap[v[2]][k][1] # "obj"

\* C17 as stated: V.equals(W) is true when V and W were built from equal data and
\* false when they were built from different data.
C17_Original ==
  (ret.op = "ValueObject.equals" /\ ret.arg[1] = "vo") =>
    ret.value = SameContent(valueObjects[ret.this], valueObjects[ret.arg[2]])

\* C17 amended: V.equals(W) is false when V and W were built from different data;
\* it is true when they were built from equal data that is not undefined and holds
\* no nested object.
C17_Amended ==
  (ret.op = "ValueObject.equals" /\ ret.arg[1] = "vo") =>
    LET a == valueObjects[ret.this]
        b == valueObjects[ret.arg[2]]
    IN  /\ ~SameContent(a, b) => ret.value = FALSE
        /\ (SameContent(a, b) /\ Flat(a)) => ret.value = TRUE

\* C17 witness: equals has returned true for two value objects built from two
\* different data objects with the same content
C17_Witness ==
  /\ ret.op = "ValueObject.equals"
  /\ ret.arg[1] = "vo"
  /\ ret.value = TRUE
  /\ valueObjects[ret.this][1] = "obj"
  /\ valueObjects[ret.arg[2]][1] = "obj"
  /\ valueObjects[ret.this] # valueObjects[ret.arg[2]]

\* C18: equals returns false for undefined, for null and for a value object whose
\* data is undefined; otherwise it returns the field-by-field comparison of the two
\* data: the same value, or two objects with the same keys each of whose fields holds
\* the same primitive or the same reference, so that two data objects whose nested
\* objects are different objects are not equal whatever those hold.
C18_ShallowByReference ==
  ret.op = "ValueObject.equals" =>
    /\ ret.arg \in {Undefined, NullValue} => ret.value = FALSE
    /\ ret.arg[1] = "vo" =>
         LET a == valueObjects[ret.this]
             b == valueObjects[ret.arg[2]]
         IN  IF b = Undefined THEN ret.value = FALSE
             ELSE IF a[1] = "obj" /\ b[1] = "obj"
             THEN ret.value =
                    (\/ a[2] = b[2]
                     \/ /\ DOMAIN heap[a[2]] = DOMAIN heap[b[2]]
                        /\ \A k \in DOMAIN heap[a[2]] : heap[a[2]][k] = heap[b[2]][k])
             ELSE ret.value = (a = b)

\* C18 witness: equals has returned false for two value objects whose data objects
\* have the same content but hold two different nested objects
C18_Witness ==
  /\ ret.op = "ValueObject.equals"
  /\ ret.arg[1] = "vo"
  /\ ret.value = FALSE
  /\ valueObjects[ret.this][1] = "obj"
  /\ valueObjects[ret.arg[2]][1] = "obj"
  /\ SameContent(valueObjects[ret.this], valueObjects[ret.arg[2]])

\* C19: a.equals(b) is true exactly when a and b have the same length and their
\* items are pairwise equal, position by position, under the shallow comparison.
C19_EqualLengthAndPairwise ==
  (ret.op = "CollectionValueObject.equals" /\ ret.arg[1] = "collection") =>
    LET mine   == arrays[collections[ret.this]]
        theirs == arrays[collections[ret.arg[2]]]
    IN  ret.value =
          (/\ Len(mine) = Len(theirs)
           /\ \A index \in 1..Len(mine) : shallowEqual(mine[index], theirs[index]))

\* C20: after removeBy(key, value) the collection holds exactly the former items
\* for which item[key] !== value, in their former order.
C20_RemovesTheMatches ==
  ret.op = "CollectionValueObject.removeBy" =>
    arrays[collections[ret.this]] =
      SelectSeq(ret.before,
                LAMBDA item : Get(heap[item[2]], ret.arg[1]) # ret.arg[2])

\* C21: add(item) and addBulk(items) give the collection a new array that holds the
\* former items followed by item, respectively by the items in their order, and
\* leave every array that existed as it was; the array a collection holds is frozen
\* at all times, whatever add, addBulk and removeBy calls were made.
C21_CopyOnWrite ==
  /\ [](\A c \in DOMAIN collections : ArrayRef(collections[c]) \in frozen)
  /\ [][\A this \in 1..MaxInstances :
          /\ \A newItem \in {ObjRef(5)} :
               Add(this, newItem) =>
                 /\ collections'[this] \notin DOMAIN arrays
                 /\ arrays'[collections'[this]] = Append(arrays[collections[this]], newItem)
                 /\ \A n \in DOMAIN arrays : arrays'[n] = arrays[n]
          /\ \A newItems \in 1..MaxArrays :
               AddBulk(this, newItems) =>
                 /\ collections'[this] \notin DOMAIN arrays
                 /\ arrays'[collections'[this]] =
                      arrays[collections[this]] \o arrays[newItems]
                 /\ \A n \in DOMAIN arrays : arrays'[n] = arrays[n]]_vars

\* C21 witness: add has just given a collection a new frozen array of three items,
\* while the array it held before, of two items, is still there unchanged
C21_Witness ==
  /\ ret.op = "CollectionValueObject.add"
  /\ Len(ret.before) = 2
  /\ arrays[ret.was] = ret.before
  /\ collections[ret.this] # ret.was
  /\ arrays[collections[ret.this]] = Append(ret.before, ret.arg)
  /\ ArrayRef(collections[ret.this]) \in frozen

\* the objects a value leads to, itself included
RECURSIVE Reachable(_)
Reachable(v) ==
  IF v[1] # "obj" THEN {}
  ELSE {v} \cup UNION {Reachable(heap[v[2]][k]) : k \in DOMAIN heap[v[2]]}

\* C22: once a value object is constructed, no object its data leads to, at any
\* depth, is changed by a write of application code.
C22_DeeplyImmutable ==
  [][\A v \in DOMAIN valueObjects :
       \A o \in Reachable(valueObjects[v]) : heap'[o[2]] = heap[o[2]]]_vars

\* C23: the constructor sets timestamp to the instant at which it runs, aggregateId
\* to the context's, tenantId to the context's or to null when the context has none,
\* and data to the payload or to null when there is none; afterwards no step, an
\* addDomainEvent, a dispatch or the passing of time, changes a field of the event.
C23_FieldsFixedAtConstruction ==
  /\ [][\A e \in DOMAIN eventObjects : eventObjects'[e] = eventObjects[e]]_vars
  /\ [][\A e \in EventRefs, ctx \in {in[1] : in \in EventInputs},
            data \in {in[2] : in \in EventInputs} :
          NewEvent(e, ctx, data) =>
            /\ eventObjects'[e].timestamp = now
            /\ eventObjects'[e].aggregateId = ctx.aggregateId
            /\ eventObjects'[e].tenantId =
                 (IF "tenantId" \in DOMAIN ctx THEN ctx.tenantId ELSE NullValue)
            /\ eventObjects'[e].data = (IF data = Undefined THEN NullValue ELSE data)]_vars

\* C23 witness: an event constructed at instant 0 without tenant and without payload
\* has been handed to a handler at a later instant, its fields being what the
\* constructor set
C23_Witness ==
  /\ now > 0
  /\ \E k \in 1..Len(calls) :
       /\ calls[k][2] \in DOMAIN eventObjects
       /\ eventObjects[calls[k][2]] =
            [aggregateId |-> Uuid(1), timestamp |-> 0,
             tenantId |-> NullValue, data |-> NullValue]

\* ---------------------------------------------------------------- C24
\* C24: clearEventHandlers() leaves no handler registered for any event type and
\* changes neither the pending registry nor any aggregate's queue;
\* clearRegisteredAggregates() leaves the pending registry empty and changes neither
\* the handler map nor any aggregate's queue.
C24_ResetsOnlyItsOwnState ==
  [][/\ prev'.op = "clearEventHandlers" =>
          /\ \A n \in EventNames : HandlersFor(eventHandlers', n) = <<>>
          /\ aggregatesWithEvents' = aggregatesWithEvents
          /\ domainEvents' = domainEvents
     /\ prev'.op = "clearRegisteredAggregates" =>
          /\ aggregatesWithEvents' = <<>>
          /\ eventHandlers' = eventHandlers
          /\ domainEvents' = domainEvents]_vars

\* clearEventHandlers() has just returned: the handlers are gone, the aggregate is
\* still registered and still holds its event
C24_Witness ==
  /\ prev.op = "clearEventHandlers"
  /\ \A n \in EventNames : ListedUnder(n) = <<>>
  /\ \E a \in DOMAIN id : Registered(a) /\ domainEvents[a] # <<>>

\* ---------------------------------------------------------------- C25
\* C25: no event is lost by a dispatch: when dispatchAggregateEvents is about to clear
\* the queue of the entry it found, every event in that queue has been passed, during
\* this dispatch, to every handler listed under its type name, once for each time it
\* is queued; also when a handler has called addDomainEvent on that aggregate.
C25_NoEventLost ==
  (~Idle /\ LoopDone(Top)) =>
    \A e \in Range(domainEvents[Top.found]) :
      \A h \in Range(ListedUnder(e.type)) :
        Occ(calls, <<h, e>>) >=
          Occ(domainEvents[Top.found], e) * Occ(ListedUnder(e.type), h)

\* ---------------------------------------------------------------- C26
\* C26: with handlers that return normally and every addDomainEvent adding a new
\* event, an event passed to a handler by a dispatchAggregateEvents call that has
\* returned is never passed to a handler by a later call, and a call with aggregate a
\* passes to handlers only events added after the previous call with a returned.
C26_AtMostOnceAcrossDispatches ==
  ~Idle =>
    \A k \in 1..Len(calls) :
      /\ calls[k][2] \notin history.delivered
      /\ <<Top.arg, calls[k][2]>> \notin history.stale

\* ---------------------------------------------------------------- C27
\* the invocations a dispatch of evs makes under the handler map, in order
RECURSIVE Deliveries(_, _)
Deliveries(map, evs) ==
  IF evs = <<>> THEN <<>>
  ELSE [k \in 1..Len(HandlersFor(map, Head(evs).type)) |->
          <<HandlersFor(map, Head(evs).type)[k], Head(evs)>>]
       \o Deliveries(map, Tail(evs))

\* C27: when a handler throws during dispatchAggregateEvents(a), the call ends there:
\* the exception reaches the caller, the invocations made are those up to the handler
\* that threw and no later one, no queue and no registry entry changes, and the next
\* dispatchAggregateEvents(a) finds the same entry and starts over with its whole queue.
C27_ThrowLeavesEverythingQueued ==
  /\ [][prev'.op = "dispatchAggregateEvents threw" =>
          /\ stack' = <<>>
          /\ domainEvents' = domainEvents
          /\ aggregatesWithEvents' = aggregatesWithEvents
          /\ calls' = SubSeq(Deliveries(eventHandlers, domainEvents[prev'.found]),
                             1, Len(calls'))]_vars
  /\ [][(prev.op = "dispatchAggregateEvents threw" /\ stack' # <<>>
           /\ stack'[1].arg = prev.arg) =>
          /\ stack'[1].found = prev.found
          /\ stack'[1].evs = domainEvents[prev.found]
          /\ calls' = <<>>]_vars

\* C27 witness: of two handlers and two queued events the first handler threw on the
\* first event: one invocation was made of four, both events are still queued and the
\* aggregate is still registered
C27_Witness ==
  /\ Idle
  /\ prev.op = "dispatchAggregateEvents threw"
  /\ prev.found = prev.arg
  /\ Registered(prev.arg)
  /\ Len(domainEvents[prev.arg]) = 2
  /\ Len(calls) = 1
  /\ Len(Deliveries(eventHandlers, domainEvents[prev.arg])) = 4

\* ---------------------------------------------------------------- C28
\* C28: addDomainEvent puts the event at the end of the queue, and a dispatch passes
\* the events of the queue it walks to the handlers in queue order, that is, in the
\* order they were added, all handlers of one event before any handler of the next.
C28_InOrderAdded ==
  /\ [](~Idle =>
          calls = SubSeq(Deliveries(eventHandlers, domainEvents[Top.found]), 1, Len(calls)))
  /\ []((~Idle /\ LoopDone(Top)) =>
          calls = Deliveries(eventHandlers, domainEvents[Top.found]))
  /\ [][prev'.op = "addDomainEvent" =>
          \E e \in Events :
            domainEvents'[prev'.arg] = Append(domainEvents[prev'.arg], e)]_vars

\* C28 witness: two different events and two handlers for their type: both handlers
\* got the event added first, then both got the event added second
C28_Witness ==
  /\ ~Idle /\ LoopDone(Top)
  /\ Len(calls) = 4
  /\ domainEvents[Top.found] = <<calls[1][2], calls[3][2]>>
  /\ calls[1][2] # calls[3][2]
  /\ calls[2][2] = calls[1][2] /\ calls[4][2] = calls[3][2]
  /\ calls[1][1] # calls[2][1]

\* ---------------------------------------------------------------- C29
\* C29: new Entity(bag) removes the keys id and tenantId from the bag object itself,
\* leaves its other keys and every other object alone, and keeps a reference to that
\* same object as its data; an entity constructed from a bag that an earlier entity
\* was constructed from gets a generated id that no other entity has and the null
\* tenant, and equals between the two is false.
C29_BagStrippedInPlace ==
  /\ [][(ret'.op = "new Entity" /\ ret'.arg # Undefined /\ Len(entities') > Len(entities)) =>
          LET a == ret'.arg[2]
              n == ret'.this
          IN  /\ DOMAIN heap'[a] = DOMAIN heap[a] \ {"id", "tenantId"}
              /\ \A k \in DOMAIN heap'[a] : heap'[a][k] = heap[a][k]
              /\ \A o \in DOMAIN heap \ {a} : heap'[o] = heap[o]
              /\ entities'[n].data = ret'.arg
              /\ \A e \in DOMAIN entities :
                   entities[e].data = ret'.arg =>
                     /\ entities'[n].id = Uuid(n)
                     /\ entities'[n].tenantId = NullValue
                     /\ \A f \in DOMAIN entities : entities[f].id # Uuid(n)]_vars
  /\ []((ret.op = "Entity.equals" /\ isEntity(ret.arg) /\ ret.arg[2] # ret.this
           /\ entities[ret.arg[2]].data = entities[ret.this].data) =>
          ret.value = FALSE)

\* C29 witness: two entities constructed from one bag that held the id "x" and a
\* tenant: the first has them, the second has a generated id and no tenant, the bag
\* has neither key, and the first has been compared with the second
C29_Witness ==
  /\ ret.op = "Entity.equals"
  /\ isEntity(ret.arg)
  /\ ret.this < ret.arg[2]
  /\ entities[ret.this].data = entities[ret.arg[2]].data
  /\ entities[ret.this].id = Str("x")
  /\ entities[ret.this].tenantId # NullValue
  /\ entities[ret.arg[2]].given = Undefined
  /\ entities[ret.arg[2]].tenantId = NullValue
  /\ DOMAIN heap[entities[ret.this].data[2]] \cap {"id", "tenantId"} = {}
  /\ ret.value = FALSE

\* ---------------------------------------------------------------- C30
\* C30: a registerEventHandler call, by application code or by a running handler,
\* appends to the list of its type name and changes no other list and not the pending
\* registry.  During a dispatch it does not change the handlers the event being
\* delivered goes to: every invocation is of the next handler of the list that was
\* fetched when that event was reached.  When the dispatch moves on to a later event,
\* the list it fetches is the one registered by then, the new handler included.
C30_RegisteredWhileDelivering ==
  /\ [][eventHandlers' # eventHandlers =>
          /\ \E n \in EventNames, h \in Handlers :
               /\ n \in DOMAIN eventHandlers'
               /\ eventHandlers'[n] = Append(ListedUnder(n), h)
               /\ \A m \in DOMAIN eventHandlers' \ {n} :
                    m \in DOMAIN eventHandlers /\ eventHandlers'[m] = eventHandlers[m]
          /\ aggregatesWithEvents' = aggregatesWithEvents
          /\ stack' = stack
          /\ calls' = calls]_vars
  /\ [][(~Idle /\ Len(calls') = Len(calls) + 1) =>
          /\ calls'[Len(calls')] = <<Top.hs[Top.j], Top.evs[Top.i]>>
          /\ LET c == stack'[Len(stack)]
             IN  IF Top.j < Len(Top.hs)
                 THEN c.i = Top.i /\ c.hs = Top.hs /\ c.j = Top.j + 1
                 ELSE /\ c.i > Top.i
                      /\ c.j = 1
                      /\ c.i <= Len(Top.evs) => c.hs = ListedUnder(Top.evs[c.i].type)
                      /\ \A k \in (Top.i + 1)..(c.i - 1) :
                           ListedUnder(Top.evs[k].type) = <<>>]_vars

\* C30 witness: two different events of one type were dispatched with h1 registered,
\* and h2 was registered while the first was being delivered: h1 got the first event,
\* h1 and h2 got the second
C30_Witness ==
  /\ ~Idle /\ LoopDone(Top)
  /\ Len(Top.evs) = 2
  /\ Top.evs[1] # Top.evs[2]
  /\ Top.evs[1].type = Top.evs[2].type
  /\ calls = <<<<"h1", Top.evs[1]>>, <<"h1", Top.evs[2]>>, <<"h2", Top.evs[2]>>>>

====
